---- MODULE Spec2Model ----
(***************************************************************************)
(* The interactive remote-shell session (SSHConnection, SSHWorker,         *)
(* SSHTerminal of src/project/ui04.py) and the telemetry client            *)
(* (DataVisualizer of src/project/workspace/websockui.py and               *)
(* src/project/ui04.py) as state machines.                                 *)
(*                                                                         *)
(* Text is a sequence of code points, a chunk read from the channel a      *)
(* sequence of bytes (both sequences of naturals).  The GUI thread and the *)
(* worker thread of one terminal are two program counters, gpc and wpc.    *)
(***************************************************************************)
EXTENDS Integers, Sequences, FiniteSets, TLC

VARIABLES
    \* ---- SSHConnection (ui04.py:66-100)
    is_connected,   \* connection.is_connected
    shell,          \* connection.shell: "none" | "open" | "closed"
    client,         \* connection.client: "none" | "open" | "closed"
    history,        \* connection.history
    completions,    \* connection.completions
    \* ---- SSHWorker (ui04.py:112-173)
    is_running,     \* worker.is_running
    wpc,            \* position of the worker thread in start()/receive_output()
    buffer,         \* the local reassembly buffer of receive_output
    events,         \* every signal the worker has emitted, in emission order
    \* ---- SSHTerminal (ui04.py:177-380)
    gpc,            \* position of the GUI thread in the terminal's handlers
    worker,         \* terminal.worker: "none" | "created"
    thread,         \* terminal.worker_thread: "none" | "running" | "finished"
    quitReq,        \* worker_thread.quit() has been called
    closedHandled,  \* number of connection_closed signals on_connection_closed has run for
    inputEnabled,   \* input_edit.isEnabled()
    echoed,         \* commands echoed by display_output(prompt + command)
    sent,           \* commands written to the channel by shell.send
    \* ---- environment and history of the run
    chunkLog,       \* the chunks recv returned, in order
    readsLeft,      \* reads the channel will still serve
    cmdsLeft,       \* Return presses the operator will still make
    closesLeft,     \* close events the terminal will still receive
    connectError,   \* how init_ssh failed: "none" | "auth" | "unreachable" | "other"
    histLens,       \* len(history) after each send_command that was not a no-op
    \* ---- DataVisualizer (websockui.py:36-178, ui04.py:574-748)
    variant,        \* whose websocket_client runs: "websockui" | "ui04"
    data_buffer,    \* self.data_buffer
    ws_status,      \* the text of the ws_status label
    loops,          \* one record per run_websocket thread started, in start order
    published,      \* the messages the feed has published, in order
    arrivals,       \* the records appended to data_buffer, in order
    clientLog,      \* what each client loop did: attempts, status texts, seconds slept
    feedMax,        \* messages the feed will publish
    faultsLeft,     \* connection faults the network will still produce
    restartsLeft,   \* clicks on Reconnect the operator will still make
    \* ---- the presenter: update_plot and PlotWidget (websockui.py:145-209)
    variables,      \* self.variables, the key list of the last tick
    plot,           \* plot_widget: variables, times, values, and set_variables calls
    ppc,            \* where update_plot stands: "idle" | "times" | "series"
    tick,           \* update_plot's locals: times, values, index of the next variable
    ticksLeft,      \* timer ticks still to come
    \* ---- MainWindow, SSHLoginDialog, FileUploader (ui04.py:398-473, 916-1234)
    dlg,            \* the login dialog: "closed" | "open"
    dlgConn,        \* dialog.connection, as accept() has filled it so far
    nextConn,       \* the identity the next SSHConnection object gets
    terminals,      \* one record per SSHTerminal constructed, in construction order
    tabs,           \* ssh_tab_widget: the terminals on its tabs, left to right
    currentIndex,   \* ssh_tab_widget.currentIndex(), -1 without tabs
    ssh_connection, \* file_uploader.ssh_connection: a connection identity or None
    updaters,       \* update_upload_connection closures connected to currentChanged
    timers,         \* terminals whose singleShot(2000, tab_close_requested.emit) runs
    dialogsLeft     \* clicks on the add button the operator will still make

sshVars == <<is_connected, shell, client, history, completions, is_running, wpc,
             buffer, events, gpc, worker, thread, quitReq, closedHandled,
             inputEnabled, echoed, sent, chunkLog, readsLeft, cmdsLeft,
             closesLeft, connectError, histLens>>

plotVars == <<variables, plot, ppc, tick, ticksLeft>>

telVars == <<variant, data_buffer, ws_status, loops, published, arrivals, clientLog,
             feedMax, faultsLeft, restartsLeft, plotVars>>

winVars == <<dlg, dlgConn, nextConn, terminals, tabs, currentIndex, ssh_connection,
             updaters, timers, dialogsLeft>>

vars == <<sshVars, telVars, winVars>>

\* ------------------------------------------------------------------ bounds
MaxReads == 3
MaxCmds == 3
MaxCloses == 2
MaxRecords == 150
MaxPublished == 3
MaxFaults == 1
MaxLag == 2

\* ---------------------------------------------------------- program constants
FlushThreshold == 100
max_data_points == 100
BackoffSeconds == 3

\* ------------------------------------------------------------------- text
NL == 10
\* the bytes a chunk is made of: "a", and the two bytes of U+00E9 in UTF-8
B == [a |-> 97, c3 |-> 195, a9 |-> 169]

Rep(x, n) == [i \in 1..n |-> x]

\* index of the first byte of s that is not ASCII, 0 when there is none
FirstNonAscii(s) ==
    IF \E i \in 1..Len(s) : s[i] >= 128
    THEN CHOOSE i \in 1..Len(s) : s[i] >= 128 /\ \A j \in 1..(i - 1) : s[j] < 128
    ELSE 0

\* data.decode("utf-8"): strict; one- and two-byte sequences
RECURSIVE Utf8Valid(_)
Utf8Valid(b) ==
    LET k == FirstNonAscii(b) IN
    IF k = 0 THEN TRUE
    ELSE /\ b[k] >= 194 /\ b[k] <= 223
         /\ Len(b) >= k + 1
         /\ b[k + 1] >= 128 /\ b[k + 1] <= 191
         /\ Utf8Valid(SubSeq(b, k + 2, Len(b)))

RECURSIVE Utf8Decode(_)
Utf8Decode(b) ==
    LET k == FirstNonAscii(b) IN
    IF k = 0 THEN b
    ELSE SubSeq(b, 1, k - 1) \o <<(b[k] - 192) * 64 + (b[k + 1] - 128)>>
         \o Utf8Decode(SubSeq(b, k + 2, Len(b)))

\* the GBK double-byte characters over the modelled bytes (lead, trail) -> code point
GbkTable ==
    (<<195, 97>> :> 32970) @@ (<<195, 195>> :> 22969) @@ (<<195, 169>> :> 33541) @@
    (<<169, 97>> :> 12443) @@ (<<169, 195>> :> 9503) @@ (<<169, 169>> :> 9477)

\* data.decode("gbk", errors="ignore"): a lead byte with a trail byte is one
\* character, any other byte that is not ASCII is dropped
RECURSIVE GbkDecodeIgnore(_)
GbkDecodeIgnore(b) ==
    LET k == FirstNonAscii(b) IN
    IF k = 0 THEN b
    ELSE IF Len(b) >= k + 1 /\ <<b[k], b[k + 1]>> \in DOMAIN GbkTable
         THEN SubSeq(b, 1, k - 1) \o <<GbkTable[<<b[k], b[k + 1]>>]>>
              \o GbkDecodeIgnore(SubSeq(b, k + 2, Len(b)))
    ELSE SubSeq(b, 1, k - 1) \o GbkDecodeIgnore(SubSeq(b, k + 1, Len(b)))

\* ui04.py:148-151
Decode(data) ==
    IF Utf8Valid(data) THEN Utf8Decode(data) ELSE GbkDecodeIgnore(data)

\* index of the first "\n" of s, 0 when there is none
FirstNL(s) ==
    IF \E i \in 1..Len(s) : s[i] = NL
    THEN CHOOSE i \in 1..Len(s) : s[i] = NL /\ \A j \in 1..(i - 1) : s[j] # NL
    ELSE 0

HasNL(s) == FirstNL(s) # 0

\* ui04.py:156-158: while "\n" in buffer: line, buffer = buffer.split("\n", 1); emit(line + "\n")
RECURSIVE SplitLines(_)
SplitLines(b) ==
    LET i == FirstNL(b) IN
    IF i = 0 THEN [lines |-> <<>>, rest |-> b]
    ELSE LET r == SplitLines(SubSeq(b, i + 1, Len(b)))
         IN [lines |-> <<SubSeq(b, 1, i)>> \o r.lines, rest |-> r.rest]

\* a reader whose threshold is one character too high
MutNeedsFlushOff(rest) == rest # <<>> /\ Len(rest) > FlushThreshold + 1

\* ui04.py:161: if buffer and len(buffer) > 100
NeedsFlush(rest) == rest # <<>> /\ Len(rest) > FlushThreshold

\* ------------------------------------------------------------------ events
OutputEv(t) == [type |-> "output", src |-> "recv", text |-> t]
ErrorEv(s) == [type |-> "error", src |-> s, text |-> <<>>]
ClosedEv == [type |-> "closed", src |-> "recv", text |-> <<>>]

RECURSIVE OutputEvs(_)
OutputEvs(ts) == IF ts = <<>> THEN <<>> ELSE <<OutputEv(Head(ts))>> \o OutputEvs(Tail(ts))

\* the chunks the channel can deliver to one recv(4096)
Chunks ==
    { <<B.a>>,
      <<NL>>,
      <<B.a, NL, B.a>>,
      <<NL, B.a, NL>>,
      Rep(B.a, FlushThreshold \div 2),
      <<B.c3, B.a9>>,
      <<B.c3>> }

\* ------------------------------------------------------------ command text
Space == " "

RECURSIVE LStrip(_)
LStrip(s) == IF s # <<>> /\ Head(s) = Space THEN LStrip(Tail(s)) ELSE s

RECURSIVE RStrip(_)
RStrip(s) ==
    IF s # <<>> /\ s[Len(s)] = Space THEN RStrip(SubSeq(s, 1, Len(s) - 1)) ELSE s

\* ui04.py:332: self.input_edit.text().strip()
Strip(s) == RStrip(LStrip(s))

\* what the operator can have typed when Return is pressed
RawInputs ==
    { <<>>, <<Space>>,
      <<"l", "s">>, <<Space, "l", "s", Space>>,
      <<"x">>, <<"x", Space>>,
      <<"y">> }

\* ui04.py:78-100
DefaultCompletions ==
    << <<"l", "s">>, <<"c", "d">>, <<"p", "w", "d">>, <<"m", "k", "d", "i", "r">>,
       <<"r", "m">>, <<"c", "p">>, <<"m", "v">>, <<"c", "a", "t">>,
       <<"g", "r", "e", "p">>, <<"p", "s">>, <<"t", "o", "p">>,
       <<"i", "f", "c", "o", "n", "f", "i", "g">>, <<"p", "i", "n", "g">>,
       <<"s", "u", "d", "o">>, <<"a", "p", "t", "-", "g", "e", "t">>,
       <<"y", "u", "m">>, <<"d", "o", "c", "k", "e", "r">>, <<"g", "i", "t">>,
       <<"s", "s", "h">> >>

InSeq(x, s) == \E i \in 1..Len(s) : s[i] = x

\* ------------------------------------------------------------------- Init
\* SSHConnection(host, port, ...) and SSHWorker/SSHTerminal fields before init_ssh
SshInit ==
    /\ is_connected = FALSE
    /\ shell = "none"
    /\ client = "none"
    /\ history = <<>>
    /\ completions = DefaultCompletions
    /\ is_running = FALSE
    /\ wpc = "unstarted"
    /\ buffer = <<>>
    /\ events = <<>>
    /\ gpc = "init"
    /\ worker = "none"
    /\ thread = "none"
    /\ quitReq = FALSE
    /\ closedHandled = 0
    /\ inputEnabled = TRUE
    /\ echoed = <<>>
    /\ sent = <<>>
    /\ chunkLog = <<>>
    /\ connectError = "none"
    /\ histLens = <<>>

\* --------------------------------------------------- SSHTerminal.init_ssh
\* ui04.py:265-302: connect, invoke_shell, is_connected = True, worker and thread started
InitSshOk ==
    /\ gpc = "init"
    /\ client' = "open"
    /\ shell' = "open"
    /\ is_connected' = TRUE
    /\ worker' = "created"
    /\ thread' = "running"
    /\ inputEnabled' = TRUE
    /\ gpc' = "idle"
    /\ UNCHANGED <<history, completions, is_running, wpc, buffer, events, quitReq,
                   closedHandled, echoed, sent, chunkLog, readsLeft,
                   cmdsLeft, closesLeft, connectError, histLens, telVars, winVars>>

\* ui04.py:304-316: client.connect raised; the SSHClient object exists, nothing else
InitSshFail(kind) ==
    /\ gpc = "init"
    /\ client' = "created"
    /\ connectError' = kind
    /\ gpc' = "idle"
    /\ UNCHANGED <<is_connected, shell, history, completions, is_running, wpc, buffer,
                   events, worker, thread, quitReq, closedHandled, inputEnabled,
                   echoed, sent, chunkLog, readsLeft, cmdsLeft,
                   closesLeft, histLens, telVars, winVars>>

\* ------------------------------------------------------------- SSHWorker
workerFrame == <<is_connected, shell, client, history, completions, gpc, worker,
                 quitReq, closedHandled, inputEnabled, echoed, sent, cmdsLeft,
                 closesLeft, connectError, histLens, telVars, winVars>>

\* ui04.py:124-127, run by worker_thread.started (ui04.py:293)
WorkerStart ==
    /\ thread = "running"
    /\ wpc = "unstarted"
    /\ is_running' = TRUE
    /\ wpc' = "loop"
    /\ UNCHANGED <<workerFrame, thread, buffer, events, chunkLog, readsLeft>>

\* a loop that looks at its own flag only
MutLoopConditionFlagOnly == is_running

\* ui04.py:144: while self.is_running and self.connection.is_connected
LoopCondition == is_running /\ is_connected

LoopCheck ==
    /\ wpc = "loop"
    /\ wpc' = IF LoopCondition THEN "body" ELSE "exit"
    /\ UNCHANGED <<workerFrame, thread, is_running, buffer, events,
                   chunkLog, readsLeft>>

\* ui04.py:146: recv_ready() is false
BodyNoData ==
    /\ wpc = "body"
    /\ wpc' = "sleep"
    /\ UNCHANGED <<workerFrame, thread, is_running, buffer, events,
                   chunkLog, readsLeft>>

\* a reader that emits an over-long remainder and forgets to clear it
MutAfterAppendKeepsFlushed(buf, output) ==
    LET sl == SplitLines(buf \o output) IN
    IF NeedsFlush(sl.rest)
    THEN [emit |-> sl.lines \o <<sl.rest>>, buffer |-> sl.rest]
    ELSE [emit |-> sl.lines, buffer |-> sl.rest]

\* ui04.py:153-163: the buffer and the lines emitted once `output` has been appended
AfterAppend(buf, output) ==
    LET sl == SplitLines(buf \o output) IN
    IF NeedsFlush(sl.rest)
    THEN [emit |-> sl.lines \o <<sl.rest>>, buffer |-> <<>>]
    ELSE [emit |-> sl.lines, buffer |-> sl.rest]

\* ui04.py:146-163: data is ready; recv, decode, append, emit lines, flush
BodyRecv(chunk) ==
    /\ wpc = "body"
    /\ readsLeft > 0
    /\ LET r == AfterAppend(buffer, Decode(chunk)) IN
        /\ buffer' = r.buffer
        /\ events' = events \o OutputEvs(r.emit)
    /\ chunkLog' = Append(chunkLog, chunk)
    /\ readsLeft' = readsLeft - 1
    /\ wpc' = "sleep"
    /\ UNCHANGED <<workerFrame, thread, is_running>>

\* a reader whose exception handler emits the closed event itself
MutBodyExceptionEmitsClosed ==
    /\ wpc = "body"
    /\ events' = (IF is_running THEN Append(events, ErrorEv("recv")) ELSE events)
                 \o <<ClosedEv>>
    /\ wpc' = "exit"
    /\ UNCHANGED <<workerFrame, thread, is_running, buffer, chunkLog, readsLeft>>

\* a reader that reports every exception, also one raised after stop()
MutBodyExceptionAlwaysReports ==
    /\ wpc = "body"
    /\ events' = Append(events, ErrorEv("recv"))
    /\ wpc' = "exit"
    /\ UNCHANGED <<workerFrame, thread, is_running, buffer, chunkLog, readsLeft>>

\* ui04.py:166-169: recv_ready or recv raised
BodyException ==
    /\ wpc = "body"
    /\ events' = IF is_running THEN Append(events, ErrorEv("recv")) ELSE events
    /\ wpc' = "exit"
    /\ UNCHANGED <<workerFrame, thread, is_running, buffer, chunkLog,
                   readsLeft>>

\* ui04.py:165: time.sleep(0.05), then back to the loop condition
Sleep ==
    /\ wpc = "sleep"
    /\ wpc' = "loop"
    /\ UNCHANGED <<workerFrame, thread, is_running, buffer, events,
                   chunkLog, readsLeft>>

\* ui04.py:171-172: if buffer: emit(buffer)
FinalFlushEvents(buf) == IF buf # <<>> THEN <<OutputEv(buf)>> ELSE <<>>

FinalFlush ==
    /\ wpc = "exit"
    /\ events' = events \o FinalFlushEvents(buffer)
    /\ wpc' = "closing"
    /\ UNCHANGED <<workerFrame, thread, is_running, buffer, chunkLog,
                   readsLeft>>

\* ui04.py:173: self.connection_closed.emit()
EmitClosed ==
    /\ wpc = "closing"
    /\ events' = Append(events, ClosedEv)
    /\ wpc' = "done"
    /\ UNCHANGED <<workerFrame, thread, is_running, buffer, chunkLog,
                   readsLeft>>

\* the thread's event loop returns once start() has returned and quit() was called
ThreadFinish ==
    /\ thread = "running"
    /\ wpc = "done"
    /\ quitReq
    /\ thread' = "finished"
    /\ UNCHANGED <<workerFrame, is_running, wpc, buffer, events, chunkLog,
                   readsLeft>>

\* ----------------------------------------------------------- SSHTerminal
guiFrame == <<wpc, buffer, chunkLog, readsLeft, connectError, telVars, winVars>>

\* a history that records every command
MutHistoryAlways(hist, command) == Append(hist, command)

\* a history that skips a command only when it repeats the last entry
MutHistoryUnlessLast(hist, command) ==
    IF hist = <<>> \/ hist[Len(hist)] # command THEN Append(hist, command) ELSE hist

\* ui04.py:340-341: if command and command not in self.connection.history: append
HistoryAfter(hist, command) ==
    IF command # <<>> /\ ~InSeq(command, hist) THEN Append(hist, command) ELSE hist

\* a terminal that adds every new history entry to the vocabulary unseen
MutCompletionsUnchecked(hist, comp, command) ==
    IF command # <<>> /\ ~InSeq(command, hist)
    THEN Append(comp, command)
    ELSE comp

\* ui04.py:340-344: the vocabulary grows only when the history did
CompletionsAfter(hist, comp, command) ==
    IF command # <<>> /\ ~InSeq(command, hist) /\ ~InSeq(command, comp)
    THEN Append(comp, command)
    ELSE comp

\* a worker that treats a failed write as the end of the session
MutSendFailureCloses(evs) ==
    [events |-> Append(Append(evs, ErrorEv("send")), ClosedEv), is_connected |-> FALSE]

\* ui04.py:133-139 SSHWorker.send_command: what a failed shell.send leaves behind
SendFailure(evs) ==
    [events |-> Append(evs, ErrorEv("send")), is_connected |-> is_connected]

\* a terminal that echoes and records before it looks at the text and the session
MutSendEffectUnguarded(raw, sendOk) ==
    LET command == Strip(raw) IN
    [echoed |-> Append(echoed, command),
     history |-> Append(history, command),
     completions |-> CompletionsAfter(history, completions, command),
     histLens |-> Append(histLens, Len(history) + 1),
     sent |-> sent, events |-> events, is_connected |-> is_connected]

\* ui04.py:330-351 SSHTerminal.send_command, with SSHWorker.send_command
\* (ui04.py:133-139): what the call leaves in the fields it can write, given the
\* text of the input line and whether shell.send succeeds
SendEffect(raw, sendOk) ==
    LET command == Strip(raw)
        same == [echoed |-> echoed, history |-> history, completions |-> completions,
                 histLens |-> histLens, sent |-> sent, events |-> events,
                 is_connected |-> is_connected]
        recorded == [same EXCEPT
                       !.echoed = Append(echoed, command),
                       !.history = HistoryAfter(history, command),
                       !.completions = CompletionsAfter(history, completions, command),
                       !.histLens = Append(histLens, Len(HistoryAfter(history, command)))]
    IN IF command = <<>> \/ ~is_connected
       THEN same
       ELSE IF worker = "created" /\ shell # "none" /\ is_connected
            THEN IF sendOk
                 THEN [recorded EXCEPT !.sent = Append(sent, command)]
                 ELSE [recorded EXCEPT !.events = SendFailure(events).events,
                                       !.is_connected = SendFailure(events).is_connected]
            ELSE recorded

\* ui04.py:330-351: returnPressed with `raw` in the input line
SendCommand(raw, sendOk) ==
    /\ gpc = "idle"
    /\ cmdsLeft > 0
    /\ cmdsLeft' = cmdsLeft - 1
    /\ LET e == SendEffect(raw, sendOk) IN
        /\ echoed' = e.echoed
        /\ history' = e.history
        /\ completions' = e.completions
        /\ histLens' = e.histLens
        /\ sent' = e.sent
        /\ events' = e.events
        /\ is_connected' = e.is_connected
    /\ UNCHANGED <<guiFrame, shell, client, is_running, gpc, worker, thread, quitReq,
                   closedHandled, inputEnabled, closesLeft>>

RECURSIVE CountType(_, _)
CountType(evs, t) ==
    IF evs = <<>> THEN 0
    ELSE (IF Head(evs).type = t THEN 1 ELSE 0) + CountType(Tail(evs), t)

\* ui04.py:353-360, the slot connection_closed is connected to (ui04.py:292)
OnConnectionClosed ==
    /\ gpc = "idle"
    /\ closedHandled < CountType(events, "closed")
    /\ closedHandled' = closedHandled + 1
    /\ is_connected' = FALSE
    /\ inputEnabled' = FALSE
    /\ UNCHANGED <<guiFrame, shell, client, history, completions, is_running, events,
                   gpc, worker, thread, quitReq, echoed, sent, cmdsLeft, closesLeft,
                   histLens>>

\* ui04.py:364-368: stop the worker, quit the thread, then wait(1000)
CloseBegin ==
    /\ gpc = "idle"
    /\ closesLeft > 0
    /\ closesLeft' = closesLeft - 1
    /\ IF thread = "running"
       THEN /\ is_running' = IF worker = "created" THEN FALSE ELSE is_running
            /\ quitReq' = TRUE
            /\ gpc' = "close_wait"
       ELSE /\ gpc' = "close_mark"
            /\ UNCHANGED <<is_running, quitReq>>
    /\ UNCHANGED <<guiFrame, is_connected, shell, client, history, completions, events,
                   worker, thread, closedHandled, inputEnabled, echoed, sent, cmdsLeft,
                   histLens>>

\* ui04.py:368: wait(1000) returns because the thread has finished
CloseWaitFinished ==
    /\ gpc = "close_wait"
    /\ thread = "finished"
    /\ gpc' = "close_mark"
    /\ UNCHANGED <<guiFrame, is_connected, shell, client, history, completions,
                   is_running, events, worker, thread, quitReq, closedHandled,
                   inputEnabled, echoed, sent, cmdsLeft, closesLeft, histLens>>

\* ui04.py:368: wait(1000) returns because the second has passed
CloseWaitTimeout ==
    /\ gpc = "close_wait"
    /\ thread # "finished"
    /\ gpc' = "close_mark"
    /\ UNCHANGED <<guiFrame, is_connected, shell, client, history, completions,
                   is_running, events, worker, thread, quitReq, closedHandled,
                   inputEnabled, echoed, sent, cmdsLeft, closesLeft, histLens>>

\* a teardown that flips the flag instead of clearing it
MutCloseMarkToggles ==
    /\ gpc = "close_mark"
    /\ is_connected' = ~is_connected
    /\ shell' = IF shell # "none" THEN "closed" ELSE shell
    /\ client' = IF client # "none" THEN "closed" ELSE client
    /\ gpc' = "idle"
    /\ UNCHANGED <<guiFrame, history, completions, is_running, events, worker, thread,
                   quitReq, closedHandled, inputEnabled, echoed, sent, cmdsLeft,
                   closesLeft, histLens>>

\* ui04.py:370-380: if is_connected: mark closed, close the channel and the client
CloseMark ==
    /\ gpc = "close_mark"
    /\ IF is_connected
       THEN /\ is_connected' = FALSE
            /\ shell' = IF shell # "none" THEN "closed" ELSE shell
            /\ client' = IF client # "none" THEN "closed" ELSE client
       ELSE UNCHANGED <<is_connected, shell, client>>
    /\ gpc' = "idle"
    /\ UNCHANGED <<guiFrame, history, completions, is_running, events, worker, thread,
                   quitReq, closedHandled, inputEnabled, echoed, sent, cmdsLeft,
                   closesLeft, histLens>>

\* ---------------------------------------------------------- DataVisualizer
\* A message of the feed: its JSON text either does not parse ("invalid"), parses to
\* a value that is no object ("nonobject"), or parses to an object, whose
\* `timestamp` and `variables` fields may each be absent and whose `variables` may
\* be something else than a mapping ("number").  A mapping is a sequence of
\* [key, value] pairs, in the order of its keys.
ObjectMsg(hasTs, ts, varsKind, mapping) ==
    [json |-> "object", hasTs |-> hasTs, ts |-> ts, varsKind |-> varsKind,
     vars |-> mapping]

InvalidMsg == [json |-> "invalid", hasTs |-> FALSE, ts |-> 0, varsKind |-> "absent",
               vars |-> <<>>]

NonObjectMsg == [json |-> "nonobject", hasTs |-> FALSE, ts |-> 0,
                 varsKind |-> "absent", vars |-> <<>>]

\* the i-th message (zero-based) of a feed of well-formed records: timestamp i
ValidMessages(i) == { ObjectMsg(TRUE, i, "mapping", <<[key |-> "a", value |-> i]>>) }

AllMessages(i) ==
    ValidMessages(i) \cup
    { ObjectMsg(FALSE, 0, "absent", <<>>),
      ObjectMsg(TRUE, i, "number", <<>>),
      InvalidMsg,
      NonObjectMsg }

\* a message of invalid structure: no JSON, no JSON object, or `variables` no mapping
Malformed(msg) == msg.json # "object" \/ msg.varsKind = "number"

\* websockui.py:123-126: WebSocketData(timestamp=data.get("timestamp", time.time()),
\* variables=data.get("variables", {})); the dataclass checks no field
ParseRecord(msg, now) ==
    [timestamp |-> IF msg.hasTs THEN msg.ts ELSE now,
     variables |-> IF msg.varsKind = "mapping" THEN msg.vars ELSE <<>>,
     isMapping |-> msg.varsKind # "number"]

\* time.time() when the i-th message is handled
TimeAt(i) == 1000 + i

\* a buffer that drops its newest element when over capacity
MutEvictNewest(buf) ==
    IF Len(buf) > max_data_points THEN SubSeq(buf, 1, Len(buf) - 1) ELSE buf

\* websockui.py:129-130: if len(self.data_buffer) > self.max_data_points: pop(0)
EvictOldest(buf) == IF Len(buf) > max_data_points THEN Tail(buf) ELSE buf

\* websockui.py:121-132, ui04.py:686-699: what the handlers around the message body
\* do with the AttributeError of data.get on a value that is no object
NonObjectEscapes == variant = "websockui"

NewLoop == [pc |-> "connect", cursor |-> 0, sleepLeft |-> 0]

LogEntry(l, what) == [loop |-> l, what |-> what]

\* websockui.py:39-53 (ui04.py:579-592): __init__ has started the first client thread
TelInit ==
    /\ variant \in {"websockui", "ui04"}
    /\ data_buffer = <<>>
    /\ ws_status = "Disconnected"
    /\ loops = <<NewLoop>>
    /\ published = <<>>
    /\ arrivals = <<>>
    /\ clientLog = <<>>

\* the feed publishes its next message
Publish(msg) ==
    /\ Len(published) < feedMax
    /\ \A l \in 1..Len(loops) :
          loops[l].pc \in {"iter", "appended"} => Len(published) - loops[l].cursor < MaxLag
    /\ published' = Append(published, msg)
    /\ UNCHANGED <<sshVars, winVars, plotVars,
                   variant, data_buffer, ws_status, loops, arrivals,
                   clientLog, feedMax, faultsLeft, restartsLeft>>

\* websockui.py:109-117: websockets.connect succeeds; the label is set to "Connected"
ConnectOk(l) ==
    /\ loops[l].pc = "connect"
    /\ loops' = [loops EXCEPT ![l].pc = "iter", ![l].cursor = Len(published)]
    /\ ws_status' = "Connected"
    /\ clientLog' = clientLog \o <<LogEntry(l, "attempt"), LogEntry(l, "Connected")>>
    /\ UNCHANGED <<sshVars, winVars, plotVars,
                   variant, data_buffer, published, arrivals, feedMax,
                   faultsLeft, restartsLeft>>

\* a client that retries at once
MutRetryWithoutSleep(l, ls, log) ==
    /\ ws_status' = "Disconnected (retrying...)"
    /\ loops' = [ls EXCEPT ![l].pc = "backoff", ![l].sleepLeft = 0]
    /\ clientLog' = Append(log, LogEntry(l, "Disconnected (retrying...)"))

\* websockui.py:133-136: except Exception: label "Disconnected (retrying...)", then
\* await asyncio.sleep(3)
Retry(l, ls, log) ==
    /\ ws_status' = "Disconnected (retrying...)"
    /\ loops' = [ls EXCEPT ![l].pc = "backoff", ![l].sleepLeft = BackoffSeconds]
    /\ clientLog' = Append(log, LogEntry(l, "Disconnected (retrying...)"))

\* websockui.py:109, 133: websockets.connect raises
ConnectFail(l) ==
    /\ loops[l].pc = "connect"
    /\ faultsLeft > 0
    /\ faultsLeft' = faultsLeft - 1
    /\ Retry(l, loops, Append(clientLog, LogEntry(l, "attempt")))
    /\ UNCHANGED <<sshVars, winVars, plotVars,
                   variant, data_buffer, published, arrivals, feedMax,
                   restartsLeft>>

\* websockui.py:136: one second of asyncio.sleep(3) passes
Second(l) ==
    /\ loops[l].pc = "backoff"
    /\ loops[l].sleepLeft > 0
    /\ loops' = [loops EXCEPT ![l].sleepLeft = @ - 1]
    /\ clientLog' = Append(clientLog, LogEntry(l, "second"))
    /\ UNCHANGED <<sshVars, winVars, plotVars,
                   variant, data_buffer, ws_status, published, arrivals,
                   feedMax, faultsLeft, restartsLeft>>

\* websockui.py:136, 107: the sleep is over, while True starts the next attempt
Wake(l) ==
    /\ loops[l].pc = "backoff"
    /\ loops[l].sleepLeft = 0
    /\ loops' = [loops EXCEPT ![l].pc = "connect"]
    /\ UNCHANGED <<sshVars, winVars, plotVars,
                   variant, data_buffer, ws_status, published, arrivals,
                   clientLog, feedMax, faultsLeft, restartsLeft>>

\* websockui.py:120-132 (ui04.py:685-699): the next message of the subscription
Receive(l) ==
    /\ loops[l].pc = "iter"
    /\ loops[l].cursor < Len(published)
    /\ LET i == loops[l].cursor + 1
           msg == published[i]
           advanced == [loops EXCEPT ![l].cursor = i]
       IN CASE msg.json = "invalid" ->
                 \* json.JSONDecodeError: continue
                 /\ loops' = advanced
                 /\ UNCHANGED <<data_buffer, arrivals, ws_status, clientLog>>
            [] msg.json = "nonobject" /\ NonObjectEscapes ->
                 \* AttributeError leaves async for and async with: outer except
                 /\ Retry(l, advanced, clientLog)
                 /\ UNCHANGED <<data_buffer, arrivals>>
            [] msg.json = "nonobject" /\ ~NonObjectEscapes ->
                 \* ui04.py:698-699: except Exception: print
                 /\ loops' = advanced
                 /\ UNCHANGED <<data_buffer, arrivals, ws_status, clientLog>>
            [] msg.json = "object" ->
                 /\ data_buffer' = Append(data_buffer, ParseRecord(msg, TimeAt(i)))
                 /\ arrivals' = Append(arrivals, ParseRecord(msg, TimeAt(i)))
                 /\ loops' = [advanced EXCEPT ![l].pc = "appended"]
                 /\ UNCHANGED <<ws_status, clientLog>>
    /\ UNCHANGED <<sshVars, winVars, plotVars,
                   variant, published, feedMax, faultsLeft, restartsLeft>>

\* websockui.py:129-130: the length check and pop(0) after the append
Evict(l) ==
    /\ loops[l].pc = "appended"
    /\ data_buffer' = EvictOldest(data_buffer)
    /\ loops' = [loops EXCEPT ![l].pc = "iter"]
    /\ UNCHANGED <<sshVars, winVars, plotVars,
                   variant, ws_status, published, arrivals, clientLog,
                   feedMax, faultsLeft, restartsLeft>>

\* websockui.py:120, 133: the connection breaks, async for raises ConnectionClosedError
StreamError(l) ==
    /\ loops[l].pc = "iter"
    /\ faultsLeft > 0
    /\ faultsLeft' = faultsLeft - 1
    /\ Retry(l, loops, clientLog)
    /\ UNCHANGED <<sshVars, winVars, plotVars,
                   variant, data_buffer, published, arrivals, feedMax,
                   restartsLeft>>

\* websockui.py:120, 107: the server closes cleanly, async for ends without an
\* exception and while True starts the next attempt
StreamEnd(l) ==
    /\ loops[l].pc = "iter"
    /\ faultsLeft > 0
    /\ faultsLeft' = faultsLeft - 1
    /\ loops' = [loops EXCEPT ![l].pc = "connect"]
    /\ UNCHANGED <<sshVars, winVars, plotVars,
                   variant, data_buffer, ws_status, published, arrivals,
                   clientLog, feedMax, restartsLeft>>

\* websockui.py:141-143: a new thread runs run_websocket; the old one is left alone
RestartWebsocket ==
    /\ restartsLeft > 0
    /\ restartsLeft' = restartsLeft - 1
    /\ loops' = Append(loops, NewLoop)
    /\ UNCHANGED <<sshVars, winVars, plotVars,
                   variant, data_buffer, ws_status, published, arrivals,
                   clientLog, feedMax, faultsLeft>>

\* the telemetry client is not running (the terminal is looked at alone)
TelIdle ==
    /\ variant = "ui04"
    /\ data_buffer = <<>>
    /\ ws_status = "Disconnected"
    /\ loops = <<>>
    /\ published = <<>>
    /\ arrivals = <<>>
    /\ clientLog = <<>>
    /\ feedMax = 0
    /\ faultsLeft = 0
    /\ restartsLeft = 0

\* ------------------------------------------- DataVisualizer.update_plot
\* list(record.variables.keys())
Keys(record) == [i \in 1..Len(record.variables) |-> record.variables[i].key]

\* record.variables.get(var, 0)
Get(record, var) ==
    IF \E i \in 1..Len(record.variables) : record.variables[i].key = var
    THEN record.variables[CHOOSE i \in 1..Len(record.variables) :
                             record.variables[i].key = var].value
    ELSE 0

\* websockui.py:44, 185-189: no variables, an empty plot, the timer between two ticks
PlotInit ==
    /\ variables = <<>>
    /\ plot = [variables |-> <<>>, times |-> <<>>, values |-> <<>>, resets |-> 0]
    /\ ppc = "idle"
    /\ tick = [times |-> <<>>, values |-> <<>>, k |-> 0]

\* the feed of the presenter: records with the keys a, or a and b, or none; the
\* value of a key in message i is i + 1, never the default 0
PlotMessages(i) ==
    { ObjectMsg(TRUE, i, "mapping", <<[key |-> "a", value |-> i + 1]>>),
      ObjectMsg(TRUE, i, "mapping",
                <<[key |-> "a", value |-> i + 1], [key |-> "b", value |-> i + 1]>>),
      ObjectMsg(TRUE, i, "absent", <<>>) }

\* a presenter that resets the plot series on every tick
MutResetNeeded(new_vars) == TRUE

\* websockui.py:168: if new_vars != self.variables
ResetNeeded(new_vars) == new_vars # variables

\* websockui.py:202-204 PlotWidget.set_variables
SetVariables(p, vs) ==
    [p EXCEPT !.variables = vs,
              !.values = [v \in {vs[i] : i \in 1..Len(vs)} |-> <<>>],
              !.resets = @ + 1]

\* websockui.py:145-170: the timer fires; an empty buffer returns at once, otherwise
\* the table and the variable list follow the last record
TickBegin ==
    /\ ppc = "idle"
    /\ ticksLeft > 0
    /\ ticksLeft' = ticksLeft - 1
    /\ IF data_buffer = <<>>
       THEN UNCHANGED <<variables, plot, ppc, tick>>
       ELSE LET new_vars == Keys(data_buffer[Len(data_buffer)]) IN
            /\ IF ResetNeeded(new_vars)
               THEN /\ variables' = new_vars
                    /\ plot' = SetVariables(plot, new_vars)
               ELSE UNCHANGED <<variables, plot>>
            /\ ppc' = "times"
            /\ UNCHANGED tick
    /\ UNCHANGED <<sshVars, winVars, variant, data_buffer, ws_status, loops, published,
                   arrivals, clientLog, feedMax, faultsLeft, restartsLeft>>

\* websockui.py:173: times = [d.timestamp for d in self.data_buffer]
TickTimes ==
    /\ ppc = "times"
    /\ tick' = [times |-> [i \in 1..Len(data_buffer) |-> data_buffer[i].timestamp],
                values |-> <<>>, k |-> 1]
    /\ ppc' = "series"
    /\ UNCHANGED <<sshVars, winVars, variant, data_buffer, ws_status, loops, published,
                   arrivals, clientLog, feedMax, faultsLeft, restartsLeft, variables,
                   plot, ticksLeft>>

\* websockui.py:175: [d.variables.get(var, 0) for d in self.data_buffer]
SeriesOf(var, buf) == [i \in 1..Len(buf) |-> Get(buf[i], var)]

\* websockui.py:174-177: the series of the next variable is read off the buffer
TickSeries ==
    /\ ppc = "series"
    /\ tick.k <= Len(variables)
    /\ LET var == variables[tick.k] IN
       tick' = [tick EXCEPT
                  !.k = @ + 1,
                  !.values = [v \in (DOMAIN tick.values) \cup {var} |->
                                 IF v = var THEN SeriesOf(var, data_buffer)
                                 ELSE tick.values[v]]]
    /\ UNCHANGED <<sshVars, winVars, variant, data_buffer, ws_status, loops, published,
                   arrivals, clientLog, feedMax, faultsLeft, restartsLeft, variables,
                   plot, ppc, ticksLeft>>

\* websockui.py:178, 206-209: plot_widget.update_data(times, values)
TickUpdate ==
    /\ ppc = "series"
    /\ tick.k > Len(variables)
    /\ plot' = [plot EXCEPT !.times = tick.times, !.values = tick.values]
    /\ ppc' = "idle"
    /\ UNCHANGED <<sshVars, winVars, variant, data_buffer, ws_status, loops, published,
                   arrivals, clientLog, feedMax, faultsLeft, restartsLeft, variables,
                   tick, ticksLeft>>

\* the presenter's timer is not looked at
PlotIdle ==
    /\ PlotInit
    /\ ticksLeft = 0

\* ------------------------------------------------------- SSHLoginDialog
\* ui04.py:466: the port range accept() allows
MinPort == 1
MaxPort == 65535

Digits == <<"0", "1", "2", "3", "4", "5", "6", "7", "8", "9">>

IsDigit(c) == \E d \in 1..Len(Digits) : Digits[d] = c

DigitVal(c) == (CHOOSE d \in 1..Len(Digits) : Digits[d] = c) - 1

\* the digits-and-underscores part of a Python integer literal: it starts and ends
\* with a digit and has no two underscores in a row
IntBody(s) ==
    /\ s # <<>>
    /\ IsDigit(s[1])
    /\ IsDigit(s[Len(s)])
    /\ \A i \in 1..Len(s) : IsDigit(s[i]) \/ s[i] = "_"
    /\ \A i \in 1..(Len(s) - 1) : ~(s[i] = "_" /\ s[i + 1] = "_")

RECURSIVE IntValue(_, _)
IntValue(s, acc) ==
    IF s = <<>> THEN acc
    ELSE IntValue(Tail(s), IF Head(s) = "_" THEN acc ELSE 10 * acc + DigitVal(Head(s)))

\* ui04.py:460: int(self.port_edit.text().strip()); ok is FALSE where int() raises
\* ValueError
ParseInt(text) ==
    LET t == Strip(text)
        signed == t # <<>> /\ Head(t) \in {"+", "-"}
        body == IF signed THEN Tail(t) ELSE t
    IN IF IntBody(body)
       THEN [ok |-> TRUE,
             value |-> IF signed /\ Head(t) = "-" THEN 0 - IntValue(body, 0)
                       ELSE IntValue(body, 0)]
       ELSE [ok |-> FALSE, value |-> 0]

\* ui04.py:404: SSHConnection(host=""), made by the dialog's constructor
NewConnection(id) == [id |-> id, host |-> <<>>, port |-> 22, username |-> <<>>]

\* a dialog that checks nothing but the host
MutAcceptHostOnly(c, hostText, portText, userText) ==
    LET p == ParseInt(portText)
        c2 == [c EXCEPT !.host = Strip(hostText),
                        !.port = IF p.ok THEN p.value ELSE @,
                        !.username = Strip(userText)]
    IN [connection |-> c2, accepted |-> c2.host # <<>>]

\* ui04.py:456-473 SSHLoginDialog.accept: the fields are assigned in order until int()
\* raises; the dialog is accepted when no ValueError was raised
AcceptEffect(c, hostText, portText, userText) ==
    LET p == ParseInt(portText)
        c1 == [c EXCEPT !.host = Strip(hostText)]
        c2 == [c1 EXCEPT !.port = p.value, !.username = Strip(userText)]
    IN IF ~p.ok
       THEN [connection |-> c1, accepted |-> FALSE]
       ELSE [connection |-> c2,
             accepted |-> /\ c2.host # <<>>
                          /\ ~(c2.port < MinPort \/ c2.port > MaxPort)
                          /\ c2.username # <<>>]

\* what the operator can have typed into the dialog
HostTexts == { <<>>, <<Space>>, <<"h">> }
UserTexts == { <<>>, <<Space, "u">> }
PortTexts ==
    { <<>>, <<"x">>, <<"0">>, <<"1">>, <<"2", "2">>, <<Space, "2", "2", Space>>,
      <<"+", "2", "2">>, <<"-", "1">>, <<"2", "_", "2">>, <<"2", Space, "2">>,
      <<"6", "5", "5", "3", "5">>, <<"6", "5", "5", "3", "6">> }

\* how client.connect / invoke_shell in init_ssh can end (ui04.py:265-316)
ConnectOutcomes == {"ok", "auth", "unreachable", "other"}

\* ----------------------------------------------------------- MainWindow
MaxDialogs == 2

\* ui04.py:918: FileUploader.ssh_connection = None; connections are numbered from 1
None == 0

\* ui04.py:1115-1118, 1186: an empty tab widget, a FileUploader without a connection
WinInit ==
    /\ dlg = "closed"
    /\ dlgConn = NewConnection(None)
    /\ nextConn = 1
    /\ terminals = <<>>
    /\ tabs = <<>>
    /\ currentIndex = -1
    /\ ssh_connection = None
    /\ updaters = 0
    /\ timers = {}

\* ui04.py:1192-1194: the add button opens a modal SSHLoginDialog, which makes its
\* own SSHConnection
AddClick ==
    /\ dlg = "closed"
    /\ dialogsLeft > 0
    /\ dialogsLeft' = dialogsLeft - 1
    /\ dlg' = "open"
    /\ dlgConn' = NewConnection(nextConn)
    /\ nextConn' = nextConn + 1
    /\ UNCHANGED <<terminals, tabs, currentIndex, ssh_connection, updaters, timers,
                   sshVars, telVars>>

\* a window whose dialogs all hand out the same SSHConnection, and whose terminals
\* start a reader whatever the connect attempt gave
MutNewTerminalCareless(connection, outcome) ==
    [conn |-> 1,
     is_connected |-> outcome = "ok",
     connectError |-> IF outcome = "ok" THEN "none" ELSE outcome,
     shell |-> IF outcome = "ok" THEN "open" ELSE "none",
     readers |-> 1,
     inputEnabled |-> TRUE,
     closedEmitted |-> FALSE,
     closedHandled |-> FALSE,
     lostCloseRequests |-> IF outcome = "ok" THEN 0 ELSE 1]

\* ui04.py:182-193, 263-316 SSHTerminal(connection): init_ssh connects, marks the
\* session connected and starts the one worker thread, or reports the error and
\* emits tab_close_requested, which has no slot yet (it gets one at ui04.py:1198)
NewTerminal(connection, outcome) ==
    [conn |-> connection.id,
     is_connected |-> outcome = "ok",
     connectError |-> IF outcome = "ok" THEN "none" ELSE outcome,
     shell |-> IF outcome = "ok" THEN "open" ELSE "none",
     readers |-> IF outcome = "ok" THEN 1 ELSE 0,
     inputEnabled |-> TRUE,
     closedEmitted |-> FALSE,
     closedHandled |-> FALSE,
     lostCloseRequests |-> IF outcome = "ok" THEN 0 ELSE 1]

\* the SSHConnection of the terminal on tab `index` (zero-based, as in Qt)
ConnectionAt(terms, tabSeq, index) == terms[tabSeq[index + 1]].conn

\* ui04.py:1195-1219: OK is pressed; an accepted dialog ends exec() and the terminal
\* is built, wired, added as the last tab, made current and handed to the uploader
DialogAccept(hostText, portText, userText, outcome) ==
    /\ dlg = "open"
    /\ LET e == AcceptEffect(dlgConn, hostText, portText, userText) IN
       IF e.accepted
       THEN /\ dlg' = "closed"
            /\ dlgConn' = e.connection
            /\ terminals' = Append(terminals, NewTerminal(e.connection, outcome))
            /\ updaters' = updaters + 1
            /\ tabs' = Append(tabs, Len(terminals) + 1)
            /\ currentIndex' = Len(tabs)
            /\ ssh_connection' = ConnectionAt(terminals', tabs', currentIndex')
       ELSE /\ dlgConn' = e.connection
            /\ UNCHANGED <<dlg, terminals, updaters, tabs, currentIndex,
                           ssh_connection>>
    /\ UNCHANGED <<nextConn, timers, dialogsLeft, sshVars, telVars>>

\* ui04.py:453, 1195: Cancel; exec() returns 0 and add_ssh_terminal does nothing
DialogReject ==
    /\ dlg = "open"
    /\ dlg' = "closed"
    /\ UNCHANGED <<dlgConn, nextConn, terminals, tabs, currentIndex, ssh_connection,
                   updaters, timers, dialogsLeft, sshVars, telVars>>

\* ui04.py:1203-1209: the operator picks another tab; currentChanged runs every
\* update_upload_connection connected so far
SwitchTab(index) ==
    /\ dlg = "closed"
    /\ index \in 0..(Len(tabs) - 1)
    /\ index # currentIndex
    /\ currentIndex' = index
    /\ ssh_connection' = IF updaters > 0 THEN ConnectionAt(terminals, tabs, index)
                         ELSE ssh_connection
    /\ UNCHANGED <<dlg, dlgConn, nextConn, terminals, tabs, updaters, timers,
                   dialogsLeft, sshVars, telVars>>

\* ui04.py:362-380 closeEvent, on a terminal of the registry
CloseEventOn(t) ==
    [t EXCEPT !.is_connected = FALSE,
              !.shell = IF t.is_connected /\ t.shell # "none" THEN "closed" ELSE @]

RemoveAt(s, index) ==
    [k \in 1..(Len(s) - 1) |-> IF k <= index THEN s[k] ELSE s[k + 1]]

\* QTabWidget.removeTab: the current index after the tab `index` is gone
CurrentAfterRemove(count, current, index) ==
    IF count = 1 THEN -1
    ELSE IF index < current THEN current - 1
    ELSE IF index = current /\ index = count - 1 THEN current - 1
    ELSE current

\* a window that leaves the uploader alone when a tab closes
MutCloseKeepsUploader(index) ==
    LET valid == index \in 0..(Len(tabs) - 1) IN
    /\ terminals' = IF valid
                    THEN [terminals EXCEPT ![tabs[index + 1]] = CloseEventOn(@)]
                    ELSE terminals
    /\ tabs' = IF valid THEN RemoveAt(tabs, index) ELSE tabs
    /\ currentIndex' = IF valid THEN CurrentAfterRemove(Len(tabs), currentIndex, index)
                       ELSE currentIndex
    /\ UNCHANGED ssh_connection

\* a window that takes index -1 as Python does: the last tab
MutCloseWrapsIndex(index) ==
    LET wrapped == IF index = -1 THEN Len(tabs) - 1 ELSE index
        valid == wrapped \in 0..(Len(tabs) - 1) IN
    /\ terminals' = IF valid
                    THEN [terminals EXCEPT ![tabs[wrapped + 1]] = CloseEventOn(@)]
                    ELSE terminals
    /\ tabs' = IF valid THEN RemoveAt(tabs, wrapped) ELSE tabs
    /\ currentIndex' = IF valid THEN CurrentAfterRemove(Len(tabs), currentIndex, wrapped)
                       ELSE currentIndex
    /\ ssh_connection' = IF Len(tabs') > 0
                         THEN ConnectionAt(terminals', tabs', currentIndex')
                         ELSE None

\* ui04.py:1221-1234 close_ssh_tab(index)
CloseSshTab(index) ==
    LET valid == index \in 0..(Len(tabs) - 1) IN
    /\ terminals' = IF valid
                    THEN [terminals EXCEPT ![tabs[index + 1]] = CloseEventOn(@)]
                    ELSE terminals
    /\ tabs' = IF valid THEN RemoveAt(tabs, index) ELSE tabs
    /\ currentIndex' = IF valid THEN CurrentAfterRemove(Len(tabs), currentIndex, index)
                       ELSE currentIndex
    /\ ssh_connection' = IF Len(tabs') > 0
                         THEN ConnectionAt(terminals', tabs', currentIndex')
                         ELSE None

\* ui04.py:1118: the operator clicks a tab's close button
UserCloseTab(index) ==
    /\ dlg = "closed"
    /\ index \in 0..(Len(tabs) - 1)
    /\ CloseSshTab(index)
    /\ UNCHANGED <<dlg, dlgConn, nextConn, updaters, timers, dialogsLeft, sshVars,
                   telVars>>

\* ui04.py:144-173: the terminal's reader leaves its loop (stop(), is_connected
\* cleared, or an exception of the channel) and emits connection_closed, which is
\* queued for the GUI thread
WorkerCloses(t) ==
    /\ t \in 1..Len(terminals)
    /\ terminals[t].readers > 0
    /\ ~terminals[t].closedEmitted
    /\ terminals' = [terminals EXCEPT ![t].closedEmitted = TRUE]
    /\ UNCHANGED <<dlg, dlgConn, nextConn, tabs, currentIndex, ssh_connection,
                   updaters, timers, dialogsLeft, sshVars, telVars>>

\* a terminal that forgets to ask for its tab to be closed
MutReaderClosedNoTimer(t) ==
    /\ t \in 1..Len(terminals)
    /\ terminals[t].closedEmitted
    /\ ~terminals[t].closedHandled
    /\ terminals' = [terminals EXCEPT ![t].is_connected = FALSE,
                                      ![t].inputEnabled = FALSE,
                                      ![t].closedHandled = TRUE]
    /\ UNCHANGED <<dlg, dlgConn, nextConn, tabs, currentIndex, ssh_connection,
                   updaters, timers, dialogsLeft, sshVars, telVars>>

\* ui04.py:353-360: on_connection_closed runs for the queued signal: the flag is
\* cleared, the input line disabled and the 2 s timer armed
ReaderClosed(t) ==
    /\ t \in 1..Len(terminals)
    /\ terminals[t].closedEmitted
    /\ ~terminals[t].closedHandled
    /\ terminals' = [terminals EXCEPT ![t].is_connected = FALSE,
                                      ![t].inputEnabled = FALSE,
                                      ![t].closedHandled = TRUE]
    /\ timers' = timers \cup {t}
    /\ UNCHANGED <<dlg, dlgConn, nextConn, tabs, currentIndex, ssh_connection,
                   updaters, dialogsLeft, sshVars, telVars>>

\* QTabWidget.indexOf: -1 when the terminal is on no tab
IndexOf(t) ==
    IF \E k \in 1..Len(tabs) : tabs[k] = t
    THEN (CHOOSE k \in 1..Len(tabs) : tabs[k] = t) - 1
    ELSE -1

\* ui04.py:360, 1198-1200: the timer emits tab_close_requested, whose slot is
\* close_ssh_tab(indexOf(terminal))
TimerFires(t) ==
    /\ t \in timers
    /\ timers' = timers \ {t}
    /\ CloseSshTab(IndexOf(t))
    /\ UNCHANGED <<dlg, dlgConn, nextConn, updaters, dialogsLeft, sshVars, telVars>>

\* the main window is not looked at
WinIdle ==
    /\ WinInit
    /\ dialogsLeft = 0

\* ------------------------------------------------------- specifications
\* one terminal: the reader loop, its channel and the terminal's close path
\* the terminal has not been opened (the telemetry client is looked at alone)
SshIdle ==
    /\ SshInit
    /\ readsLeft = 0
    /\ cmdsLeft = 0
    /\ closesLeft = 0

InitReader ==
    /\ WinIdle
    /\ PlotIdle
    /\ SshInit
    /\ TelIdle
    /\ readsLeft = MaxReads
    /\ cmdsLeft = 0
    /\ closesLeft = MaxCloses

\* the worker thread on a channel that has nothing to read
WorkerQuietStep ==
    \/ WorkerStart
    \/ LoopCheck
    \/ BodyNoData
    \/ BodyException
    \/ Sleep
    \/ FinalFlush
    \/ EmitClosed
    \/ ThreadFinish

CloseStep ==
    \/ CloseBegin
    \/ CloseWaitFinished
    \/ CloseWaitTimeout
    \/ CloseMark

NextQuiet ==
    \/ InitSshOk
    \/ \E kind \in {"auth", "unreachable", "other"} : InitSshFail(kind)
    \/ WorkerQuietStep
    \/ OnConnectionClosed
    \/ CloseStep

NextReader ==
    \/ NextQuiet
    \/ \E chunk \in Chunks : BodyRecv(chunk)

SpecReader == InitReader /\ [][NextReader]_vars

\* one terminal with its operator on a quiet channel: commands, the reader loop and
\* the close path
InitTerminal ==
    /\ WinIdle
    /\ PlotIdle
    /\ SshInit
    /\ TelIdle
    /\ readsLeft = 0
    /\ cmdsLeft = MaxCmds
    /\ closesLeft = MaxCloses

NextTerminal ==
    \/ NextQuiet
    \/ \E raw \in RawInputs, sendOk \in BOOLEAN : SendCommand(raw, sendOk)

SpecTerminal == InitTerminal /\ [][NextTerminal]_vars

\* the worker thread keeps running and closeEvent runs to its end (wait is bounded)
SpecReaderFair == SpecReader /\ WF_vars(WorkerQuietStep \/ Sleep \/ FinalFlush \/ EmitClosed)
                             /\ WF_vars(CloseStep)

\* one client loop on a feed of well-formed records, long enough to overflow the buffer
InitRing ==
    /\ WinIdle
    /\ PlotIdle
    /\ SshIdle
    /\ TelInit
    /\ feedMax = MaxRecords
    /\ faultsLeft = 0
    /\ restartsLeft = 0

NextRing ==
    \/ \E msg \in ValidMessages(Len(published)) : Publish(msg)
    \/ \E l \in 1..Len(loops) : ConnectOk(l)
    \/ \E l \in 1..Len(loops) : Receive(l)
    \/ \E l \in 1..Len(loops) : Evict(l)

SpecRing == InitRing /\ [][NextRing]_vars

\* the first client loop on a short feed of any messages, with connection faults
InitTelemetry ==
    /\ WinIdle
    /\ PlotIdle
    /\ SshIdle
    /\ TelInit
    /\ feedMax = MaxPublished
    /\ faultsLeft = MaxFaults
    /\ restartsLeft = 0

NextTelemetry ==
    \/ \E msg \in AllMessages(Len(published)) : Publish(msg)
    \/ \E l \in 1..Len(loops) : ConnectOk(l)
    \/ \E l \in 1..Len(loops) : ConnectFail(l)
    \/ \E l \in 1..Len(loops) : Second(l)
    \/ \E l \in 1..Len(loops) : Wake(l)
    \/ \E l \in 1..Len(loops) : Receive(l)
    \/ \E l \in 1..Len(loops) : Evict(l)
    \/ \E l \in 1..Len(loops) : StreamError(l)
    \/ \E l \in 1..Len(loops) : StreamEnd(l)

SpecTelemetry == InitTelemetry /\ [][NextTelemetry]_vars

\* ------------------------------------------------------------- properties
RECURSIVE DecodeAll(_)
DecodeAll(chunks) ==
    IF chunks = <<>> THEN <<>> ELSE Decode(Head(chunks)) \o DecodeAll(Tail(chunks))

RECURSIVE EmittedText(_)
EmittedText(evs) ==
    IF evs = <<>> THEN <<>>
    ELSE (IF Head(evs).type = "output" THEN Head(evs).text ELSE <<>>)
         \o EmittedText(Tail(evs))

LoopExited == wpc \in {"closing", "done"}

\* C1: the concatenation of the output_received payloads, in emission order, equals
\* the concatenation of the decoded text of all chunks read: before the loop's exit
\* the payloads plus the retained buffer, after the final flush the payloads alone.
C1_ReassemblyLossless ==
    IF LoopExited
    THEN EmittedText(events) = DecodeAll(chunkLog)
    ELSE EmittedText(events) \o buffer = DecodeAll(chunkLog)

\* several reads, lines and a final flush of a newline-less remainder have happened
C1_Witness ==
    /\ wpc = "done"
    /\ Len(chunkLog) >= 2
    /\ buffer # <<>>
    /\ HasNL(DecodeAll(chunkLog))
    /\ events[Len(events) - 1] = OutputEv(buffer)

\* C2: after every iteration that read a chunk the retained buffer holds no newline
\* and at most FlushThreshold characters; newline-less accumulated text longer than
\* the threshold is emitted in that iteration and the buffer cleared, newline-less
\* accumulated text of at most the threshold is retained and nothing is emitted.
C2_FlushProgress ==
    [][ (wpc = "body" /\ chunkLog' # chunkLog) =>
        LET acc == buffer \o Decode(chunkLog'[Len(chunkLog')]) IN
        /\ wpc' = "sleep"
        /\ ~HasNL(buffer')
        /\ Len(buffer') <= FlushThreshold
        /\ ~HasNL(acc) =>
             IF Len(acc) > FlushThreshold
             THEN events' = Append(events, OutputEv(acc)) /\ buffer' = <<>>
             ELSE events' = events /\ buffer' = acc ]_vars

\* newline-less text of FlushThreshold + 1 characters has been flushed by an iteration
C2_Witness ==
    /\ wpc = "sleep"
    /\ buffer = <<>>
    /\ events # <<>>
    /\ events[Len(events)].type = "output"
    /\ ~HasNL(events[Len(events)].text)
    /\ Len(events[Len(events)].text) = FlushThreshold + 1

ClosedOnceAndLast ==
    /\ CountType(events, "closed") <= 1
    /\ \A i \in 1..Len(events) :
          events[i].type = "closed" =>
             \A j \in 1..Len(events) : events[j].src = "recv" => j <= i
    /\ wpc = "done" =>
          /\ CountType(events, "closed") = 1
          /\ buffer # <<>> =>
                \E i \in 2..Len(events) :
                   events[i] = ClosedEv /\ events[i - 1] = OutputEv(buffer)

\* C3: once stop() has been called (closeEvent, at any position of the worker) the
\* worker emits connection_closed exactly once; no output or error of the read loop
\* follows it, and the final flush of a non-empty buffer directly precedes it.
C3_StopClosesOnce ==
    /\ []ClosedOnceAndLast
    /\ (quitReq ~> CountType(events, "closed") = 1)

\* stop arrived while the loop was running with text retained; it was flushed, then closed
C3_Witness ==
    /\ quitReq
    /\ ~is_running
    /\ wpc = "done"
    /\ buffer # <<>>
    /\ closedHandled = 0
    /\ events[Len(events)] = ClosedEv
    /\ events[Len(events) - 1] = OutputEv(buffer)

NoConsecutiveDuplicate(s) == \A i \in 1..(Len(s) - 1) : s[i] # s[i + 1]

NoDuplicate(s) == \A i, j \in 1..Len(s) : s[i] = s[j] => i = j

\* len(history) before the k-th send_command that was not a no-op
HistLenBefore(k) == IF k = 1 THEN 0 ELSE histLens[k - 1]

RECURSIVE AppendUnlessLast(_, _)
AppendUnlessLast(hist, cmds) ==
    IF cmds = <<>> THEN hist
    ELSE AppendUnlessLast(
            IF hist = <<>> \/ hist[Len(hist)] # Head(cmds)
            THEN Append(hist, Head(cmds)) ELSE hist,
            Tail(cmds))

\* what the history is if a command is appended whenever it is not yet in the history
RECURSIVE AppendUnlessPresent(_, _)
AppendUnlessPresent(hist, cmds) ==
    IF cmds = <<>> THEN hist
    ELSE AppendUnlessPresent(
            IF ~InSeq(Head(cmds), hist) THEN Append(hist, Head(cmds)) ELSE hist,
            Tail(cmds))

C9_WriteFailureNonFatal ==
    [][ (gpc = "idle" /\ echoed' # echoed /\ sent' = sent) =>
        /\ is_connected /\ is_connected'
        /\ is_running' = is_running
        /\ wpc' = wpc
        /\ thread' = thread
        /\ shell' = shell
        /\ events' = Append(events, ErrorEv("send")) ]_vars

\* a write has failed while the reader loop runs: still connected, one error, no closed
C9_Witness ==
    /\ is_connected
    /\ is_running
    /\ wpc \in {"loop", "body", "sleep"}
    /\ shell = "open"
    /\ Len(echoed) = 1
    /\ sent = <<>>
    /\ events = <<ErrorEv("send")>>

Quiescent == \A l \in 1..Len(loops) : loops[l].pc # "appended"

\* the last n elements of s (all of s when it is shorter)
LastN(s, n) == IF Len(s) <= n THEN s ELSE SubSeq(s, Len(s) - n + 1, Len(s))

\* C6 as stated: in every reachable state, the one between a client's append and its
\* eviction included, len(data_buffer) <= max_data_points.
C6_Original == Len(data_buffer) <= max_data_points

\* C7: with one client loop, whenever the loop is between two messages the buffer is
\* the last min(n, max_data_points) of the n records received, in arrival order;
\* after 150 records it holds 100 and its first element is record #50 (zero-based).
C7_RingKeepsLatest ==
    (Len(loops) = 1 /\ Quiescent) =>
       /\ data_buffer = LastN(arrivals, max_data_points)
       /\ Len(arrivals) = 150 =>
            /\ Len(data_buffer) = 100
            /\ data_buffer[1] = arrivals[51]
            /\ data_buffer[1].timestamp = arrivals[1].timestamp + 50

\* 150 records have arrived on a subscription opened before the first was published
C7_Witness ==
    /\ Len(loops) = 1
    /\ Quiescent
    /\ Len(arrivals) = 150
    /\ arrivals[1].timestamp = 0
    /\ Len(data_buffer) = 100
    /\ data_buffer[1].timestamp = 50

\* C8 as stated: a client that takes a malformed message off its subscription stays
\* on that subscription (no status change, no backoff) and appends nothing, and no
\* record in the buffer stems from a malformed message.
C8_Original ==
    /\ [](\A k \in 1..Len(data_buffer) : data_buffer[k].isMapping)
    /\ [][ \A l \in 1..Len(loops) :
             ( /\ loops[l].pc = "iter"
               /\ loops'[l].cursor = loops[l].cursor + 1
               /\ Malformed(published[loops[l].cursor + 1]) ) =>
             ( /\ loops'[l].pc = "iter"
               /\ ws_status' = ws_status
               /\ data_buffer' = data_buffer ) ]_vars

\* what loop l did, in order
LoopLog(l) ==
    LET mine == SelectSeq(clientLog, LAMBDA e : e.loop = l)
    IN [i \in 1..Len(mine) |-> mine[i].what]

FirstFailsSecondConnects ==
    <<"attempt", "Disconnected (retrying...)">> \o Rep("second", BackoffSeconds)
    \o <<"attempt", "Connected">>

\* C10: after a client has set "Disconnected (retrying...)" its next connection
\* attempt comes only after the BackoffSeconds seconds of one sleep and nothing else;
\* when the first attempt fails and the second succeeds the client has done exactly:
\* attempt, "Disconnected (retrying...)", 3 seconds of sleep, attempt, "Connected".
C10_BackoffBetweenAttempts ==
    \A l \in 1..Len(loops) :
       LET lg == LoopLog(l) IN
       /\ \A i \in 1..Len(lg), j \in 1..Len(lg) :
             ( /\ lg[i] = "Disconnected (retrying...)"
               /\ i < j
               /\ lg[j] = "attempt"
               /\ \A k \in (i + 1)..(j - 1) : lg[k] # "attempt" ) =>
             ( /\ j = i + BackoffSeconds + 1
               /\ \A k \in (i + 1)..(j - 1) : lg[k] = "second" )
       /\ ( /\ Len(lg) >= 2
            /\ lg[2] = "Disconnected (retrying...)"
            /\ \E j \in 3..(Len(lg) - 1) :
                  /\ lg[j] = "attempt"
                  /\ lg[j + 1] = "Connected"
                  /\ \A k \in 3..(j - 1) : lg[k] # "attempt" ) =>
          SubSeq(lg, 1, Len(FirstFailsSecondConnects)) = FirstFailsSecondConnects

\* the first attempt has failed and the second, after the backoff, has connected
C10_Witness ==
    /\ LoopLog(1) = FirstFailsSecondConnects
    /\ ws_status = "Connected"
    /\ loops[1].pc = "iter"

\* the subscription of loop l ends in this step: the loop leaves the message iteration
SubscriptionEnds(l) ==
    /\ loops[l].pc = "iter"
    /\ loops'[l].pc \notin {"iter", "appended"}

\* C11 as stated: whenever a subscription ends, by an error or by the server closing
\* cleanly, the client sets "Disconnected (retrying...)" and sleeps BackoffSeconds;
\* a connection attempt other than a loop's first one starts only out of a finished
\* backoff.
C11_Original ==
    [][ \A l \in 1..Len(loops) :
          /\ SubscriptionEnds(l) =>
                /\ ws_status' = "Disconnected (retrying...)"
                /\ loops'[l].pc = "backoff"
                /\ loops'[l].sleepLeft = BackoffSeconds
          /\ (loops[l].pc # "connect" /\ loops'[l].pc = "connect") =>
                (loops[l].pc = "backoff" /\ loops[l].sleepLeft = 0) ]_vars

\* ------------------------------------------------- restart_websocket
MaxRestarts == 1
MaxRestartFeed == 2
MaxRestartFaults == 1

\* the operator presses the restart button while client loops run on a short feed of
\* well-formed records
InitRestart ==
    /\ WinIdle
    /\ PlotIdle
    /\ SshIdle
    /\ TelInit
    /\ feedMax = MaxRestartFeed
    /\ faultsLeft = MaxRestartFaults
    /\ restartsLeft = MaxRestarts

NextRestart ==
    \/ RestartWebsocket
    \/ \E msg \in ValidMessages(Len(published)) : Publish(msg)
    \/ \E l \in 1..Len(loops) : ConnectOk(l)
    \/ \E l \in 1..Len(loops) : ConnectFail(l)
    \/ \E l \in 1..Len(loops) : Second(l)
    \/ \E l \in 1..Len(loops) : Wake(l)
    \/ \E l \in 1..Len(loops) : Receive(l)
    \/ \E l \in 1..Len(loops) : Evict(l)
    \/ \E l \in 1..Len(loops) : StreamError(l)
    \/ \E l \in 1..Len(loops) : StreamEnd(l)

SpecRestart == InitRestart /\ [][NextRestart]_vars

\* loop l has been superseded by a later restart_websocket()
Superseded(l) == l < Len(loops)

\* C12 as stated: a superseded loop does not retry: a connection failure of a
\* superseded loop is never followed by that loop's backoff and next attempt, so
\* no superseded loop is ever found sleeping towards a reconnect.
C12_Original ==
    [][ \A l \in 1..Len(loops) :
          (Superseded(l) /\ loops[l].pc \in {"connect", "iter"}) =>
             loops'[l].pc # "backoff" ]_vars

\* the fields send_command can write, as they are now
SendFrame ==
    [echoed |-> echoed, history |-> history, completions |-> completions,
     histLens |-> histLens, sent |-> sent, events |-> events,
     is_connected |-> is_connected]

\* C13: in every reachable state, send_command with a text that is empty once
\* stripped, or on a session that is not connected, leaves everything as it is: no
\* echo, history and completions unchanged, nothing written, no error event; and no
\* call made while the session is not connected changes any of these.
C13_SendNoOp ==
    /\ [](\A raw \in RawInputs, sendOk \in BOOLEAN :
             (Strip(raw) = <<>> \/ ~is_connected) => SendEffect(raw, sendOk) = SendFrame)
    /\ [][ (cmdsLeft' # cmdsLeft /\ ~is_connected) =>
             UNCHANGED <<echoed, history, completions, sent, events, is_connected>> ]_vars

\* the only call so far was made with an empty text on a connected session
C13_Witness ==
    /\ is_connected
    /\ gpc = "idle"
    /\ cmdsLeft = MaxCmds - 1
    /\ SendFrame = [echoed |-> <<>>, history |-> <<>>, completions |-> DefaultCompletions,
                    histLens |-> <<>>, sent |-> <<>>, events |-> <<>>,
                    is_connected |-> TRUE]

\* C14: is_connected rises only in init_ssh, which runs once per SSHConnection (the
\* terminal leaves its constructor in the same step and never re-enters it); so the
\* flag goes false -> true at most once, and after a failed connect, a closed event
\* or a teardown no operation sets it true again.
C14_ConnectedMonotonic ==
    [][ /\ (~is_connected /\ is_connected') => (gpc = "init" /\ gpc' # "init")
        /\ gpc # "init" => gpc' # "init"
        /\ (gpc # "init" /\ ~is_connected) => ~is_connected' ]_vars

\* the session was connected, the reader's closed event was handled, every teardown
\* and every command allowed has run since: the flag is still false
C14_Witness ==
    /\ ~is_connected
    /\ connectError = "none"
    /\ gpc = "idle"
    /\ closedHandled = 1
    /\ closesLeft = 0
    /\ cmdsLeft = 0

\* a step of closeEvent
TeardownStep == closesLeft' # closesLeft \/ gpc \in {"close_wait", "close_mark"}

\* the SSHConnection and what hangs on it
SessionState == <<is_connected, shell, client, history, completions>>

\* C16: no step of a second or later closeEvent changes the session (flag, channel,
\* client, history, completions): nothing is closed again; and no step of a closeEvent
\* on a terminal whose connect failed (no worker, no thread, never connected) changes
\* the session or finds a channel to touch, and that closeEvent returns at once.
C16_TeardownIdempotent ==
    [][ /\ (TeardownStep /\ closesLeft' < MaxCloses - 1) => UNCHANGED SessionState
        /\ (TeardownStep /\ connectError # "none") =>
              /\ UNCHANGED SessionState
              /\ shell = "none" /\ worker = "none" /\ thread = "none"
              /\ gpc' \in {"close_mark", "idle"} ]_vars

\* a connected session has been torn down twice: channel and client closed once
C16_Witness ==
    /\ closesLeft = MaxCloses - 2
    /\ gpc = "idle"
    /\ connectError = "none"
    /\ ~is_connected
    /\ shell = "closed"
    /\ client = "closed"

\* C17 as stated: once a closeEvent has completed on a terminal whose connect
\* succeeded, the channel and the client are closed, whether or not
\* on_connection_closed ran before it.
C17_Original ==
    (closesLeft < MaxCloses /\ gpc = "idle" /\ worker = "created") =>
       (shell = "closed" /\ client = "closed")

\* ------------------------------------------------- the main window's registry
\* the operator opens login dialogs, types, accepts or cancels, switches and closes
\* tabs, while readers end on their own
InitWindow ==
    /\ PlotIdle
    /\ SshIdle
    /\ TelIdle
    /\ WinInit
    /\ dialogsLeft = MaxDialogs

NextWindow ==
    \/ AddClick
    \/ \E hostText \in HostTexts, portText \in PortTexts, userText \in UserTexts,
          outcome \in ConnectOutcomes :
          DialogAccept(hostText, portText, userText, outcome)
    \/ DialogReject
    \/ \E index \in 0..(Len(tabs) - 1) : SwitchTab(index)
    \/ \E index \in 0..(Len(tabs) - 1) : UserCloseTab(index)
    \/ \E t \in 1..Len(terminals) : WorkerCloses(t)
    \/ \E t \in 1..Len(terminals) : ReaderClosed(t)
    \/ \E t \in timers : TimerFires(t)

SpecWindow == InitWindow /\ [][NextWindow]_vars

\* the condition under which the dialog may be accepted
ValidLogin(hostText, portText, userText) ==
    /\ Strip(hostText) # <<>>
    /\ ParseInt(portText).ok
    /\ ParseInt(portText).value \in MinPort..MaxPort
    /\ Strip(userText) # <<>>

\* C15: accept() accepts exactly the inputs with a non-empty host, a port text that
\* int() parses to a value in 1..65535 and a non-empty username; and a terminal is
\* constructed (the only place a connection is attempted) only in a step that closes
\* an open dialog whose connection then holds such values, so a rejected accept()
\* leaves the dialog open and the registry, the terminals and the uploader as they were.
C15_ValidatedBeforeConnect ==
    /\ [](\A hostText \in HostTexts, portText \in PortTexts, userText \in UserTexts :
             AcceptEffect(dlgConn, hostText, portText, userText).accepted
                <=> ValidLogin(hostText, portText, userText))
    /\ [][ /\ terminals' # terminals /\ Len(terminals') > Len(terminals) =>
                 /\ dlg = "open" /\ dlg' = "closed"
                 /\ Len(terminals') = Len(terminals) + 1
                 /\ terminals'[Len(terminals')].conn = dlgConn'.id
                 /\ dlgConn'.host # <<>>
                 /\ dlgConn'.port \in MinPort..MaxPort
                 /\ dlgConn'.username # <<>>
           /\ (dlg = "open" /\ dlg' = "open" /\ dlgConn' # dlgConn) =>
                 UNCHANGED <<terminals, tabs, currentIndex, ssh_connection, timers>> ]_vars

\* an accept() with a bad port was rejected (only the host was stored) and the dialog
\* is still open with no terminal made
C15_Witness ==
    /\ dlg = "open"
    /\ dlgConn.host = <<"h">>
    /\ dlgConn.port = 22
    /\ dlgConn.username = <<>>
    /\ terminals = <<>>

C19_UploaderFollowsCurrent ==
    /\ (tabs = <<>>) <=> (ssh_connection = None)
    /\ (tabs = <<>>) <=> (currentIndex = -1)
    /\ tabs # <<>> =>
          /\ currentIndex \in 0..(Len(tabs) - 1)
          /\ ssh_connection = ConnectionAt(terminals, tabs, currentIndex)

\* the active terminal of two was removed: the remaining one's session is active
C19_Witness ==
    /\ Len(terminals) = 2
    /\ Len(tabs) = 1
    /\ tabs[1] = 1
    /\ currentIndex = 0
    /\ ssh_connection = terminals[1].conn
    /\ ~terminals[2].is_connected
    /\ terminals[2].shell = "closed"

\* C20 as stated: a terminal whose connect failed is on no tab once add_ssh_terminal
\* has returned, and its session is never the uploader's.
C20_Original ==
    /\ \A k \in 1..Len(tabs) : terminals[tabs[k]].connectError = "none"
    /\ \A t \in 1..Len(terminals) :
          terminals[t].connectError # "none" => ssh_connection # terminals[t].conn

\* ------------------------------------------------- the presenter's ticks
MaxTicks == 2
MaxPlotFeed == 3

\* one client loop feeds the buffer while the timer ticks
InitPresenter ==
    /\ WinIdle
    /\ SshIdle
    /\ TelInit
    /\ PlotInit
    /\ feedMax = MaxPlotFeed
    /\ faultsLeft = 0
    /\ restartsLeft = 0
    /\ ticksLeft = MaxTicks

NextPresenter ==
    \/ \E msg \in PlotMessages(Len(published)) : Publish(msg)
    \/ \E l \in 1..Len(loops) : ConnectOk(l)
    \/ \E l \in 1..Len(loops) : Receive(l)
    \/ \E l \in 1..Len(loops) : Evict(l)
    \/ TickBegin
    \/ TickTimes
    \/ TickSeries
    \/ TickUpdate

SpecPresenter == InitPresenter /\ [][NextPresenter]_vars

\* C21 as stated: whenever a tick has handed its data to the plot, every series is as
\* long as the x-values and its i-th value is that of the record whose timestamp is
\* the i-th x-value (0 when the record lacks the variable).
C21_Original ==
    (ppc = "idle" /\ plot.times # <<>>) =>
       \A var \in DOMAIN plot.values :
          /\ Len(plot.values[var]) = Len(plot.times)
          /\ \A i \in 1..Len(plot.times) :
                \E j \in 1..Len(arrivals) :
                   /\ arrivals[j].timestamp = plot.times[i]
                   /\ plot.values[var][i] = Get(arrivals[j], var)

\* the step in which update_plot starts: the timer's budget goes down by one
TickStarts == ticksLeft' # ticksLeft

\* C27: a tick over a non-empty buffer leaves self.variables equal to the key list of
\* the buffer's last record and calls set_variables exactly when that key list differs
\* from the self.variables left by the tick before; a tick over an empty buffer changes
\* neither the variable list nor the plot.
C27_VariablesFollowLatest ==
    [][TickStarts =>
         IF data_buffer = <<>>
         THEN UNCHANGED <<variables, plot, ppc, tick, data_buffer>>
         ELSE LET latest == Keys(data_buffer[Len(data_buffer)]) IN
              /\ variables' = latest
              /\ IF latest # variables
                 THEN /\ plot'.resets = plot.resets + 1
                      /\ plot'.variables = latest
                      /\ \A v \in DOMAIN plot'.values : plot'.values[v] = <<>>
                 ELSE plot' = plot]_vars

\* the second tick has found the keys of the latest record changed from those the
\* first tick left and has reset the series a second time
C27_Witness ==
    /\ plot.resets = 2
    /\ ticksLeft = 0
    /\ Len(variables) = 2
    /\ ppc = "times"

\* C22 as stated: the worker never stands before recv_ready()/recv() (ui04.py:146-147)
\* on a channel that closeEvent has closed.
C22_Original == ~(wpc = "body" /\ shell = "closed")

RECURSIVE Flatten(_)
Flatten(chunks) == IF chunks = <<>> THEN <<>> ELSE Head(chunks) \o Flatten(Tail(chunks))

\* C23 as stated: once the loop has ended the emitted text is the decoding of the whole
\* byte stream, wherever the reads split it, and no byte of it was dropped.
C23_Original == LoopExited => EmittedText(events) = Decode(Flatten(chunkLog))

\* the step in which recv_ready()/recv() raises
ExceptionStep == wpc = "body" /\ wpc' = "exit"

SpecWindowFair ==
    /\ SpecWindow
    /\ \A t \in 1..MaxDialogs : WF_vars(ReaderClosed(t)) /\ WF_vars(TimerFires(t))

\* send_command on terminal t returns at its first test (ui04.py:332-333)
SendIsNoOp(t) == ~terminals[t].is_connected

OnTab(t) == IndexOf(t) # -1

\* C25 as stated: from the moment its reader has emitted connection_closed,
\* send_command on a terminal is a no-op.
C25_Original ==
    \A t \in 1..Len(terminals) : terminals[t].closedEmitted => SendIsNoOp(t)

\* C25: on_connection_closed, run for the reader's closed event, marks the session not
\* connected, disables the input line and arms the timer; from then on the session
\* stays not connected (send_command is a no-op) and the input stays disabled; and a
\* terminal whose reader has emitted closed is eventually on no tab, for good.
C25_ClosedLeadsToRemoval ==
    /\ [][\A t \in 1..Len(terminals) :
            (~terminals[t].closedHandled /\ terminals'[t].closedHandled) =>
               /\ terminals[t].closedEmitted
               /\ SendIsNoOp(t)'
               /\ ~terminals'[t].inputEnabled
               /\ t \in timers']_vars
    /\ [](\A t \in 1..Len(terminals) :
            terminals[t].closedHandled => SendIsNoOp(t) /\ ~terminals[t].inputEnabled)
    /\ \A t \in 1..MaxDialogs :
          (t <= Len(terminals) /\ terminals[t].closedEmitted)
             ~> [](/\ t <= Len(terminals)
                   /\ terminals[t].closedHandled
                   /\ ~OnTab(t))

\* the reader of the first of two terminals has ended, its closed event was handled
\* and the timer has taken its tab away; the second terminal is still there
C25_Witness ==
    /\ Len(terminals) = 2
    /\ terminals[1].closedHandled
    /\ ~terminals[1].is_connected
    /\ ~terminals[1].inputEnabled
    /\ terminals[1].shell = "open"
    /\ timers = {}
    /\ tabs = <<2>>
    /\ terminals[2].is_connected

\* C26: every send_command that is not a no-op leaves its text in
\* connection.completions; the vocabulary only grows (what it held stays where it
\* was), never holds an entry twice, and holds every history entry.
C26_VocabularyGrows ==
    /\ [](/\ NoDuplicate(completions)
          /\ \A i \in 1..Len(history) : InSeq(history[i], completions))
    /\ [](\A raw \in RawInputs, sendOk \in BOOLEAN :
            LET e == SendEffect(raw, sendOk) IN
            e.echoed # echoed => InSeq(Strip(raw), e.completions))
    /\ [][/\ Len(completions') >= Len(completions)
          /\ SubSeq(completions', 1, Len(completions)) = completions]_vars

\* three commands were sent: one of the built-in vocabulary and two new ones, which
\* were appended to it
C26_Witness ==
    /\ Len(echoed) = 3
    /\ history = << <<"l", "s">>, <<"x">>, <<"y">> >>
    /\ completions = DefaultCompletions \o << <<"x">>, <<"y">> >>

\* the step in which the timer of terminal t emits tab_close_requested
CloseRequestFor(t) == t \in timers /\ t \notin timers'

\* C28: a close request for a terminal that is on no tab any more (its tab was closed
\* by the operator, or by an earlier request) removes no tab, closes no terminal and
\* changes no session.
C28_StaleCloseRequestHarmless ==
    [][\A t \in 1..Len(terminals) :
          (CloseRequestFor(t) /\ ~OnTab(t)) =>
             /\ tabs' = tabs
             /\ terminals' = terminals
             /\ currentIndex' = currentIndex]_vars

\* the operator closed the first terminal's tab while it was connected; its reader
\* then ended and the delayed close request has fired; the second terminal is untouched
C28_Witness ==
    /\ Len(terminals) = 2
    /\ terminals[1].closedHandled
    /\ terminals[1].shell = "closed"
    /\ timers = {}
    /\ tabs = <<2>>
    /\ terminals[2].is_connected
    /\ terminals[2].shell = "open"
    /\ ~terminals[2].closedEmitted

\* closeEvent has run to its end on a terminal that was connected: it alone closes
\* the channel (ui04.py:372-373)
CloseEventCompleted == shell = "closed" /\ gpc = "idle"

ClosedEmitted == CountType(events, "closed") = 1

\* C29: once closeEvent has completed on a connected terminal, the reader loop ends
\* and connection_closed is emitted, however the worker thread's start() and the
\* controller's stop() were interleaved: with is_running set again by a start() that
\* ran after stop(), the loop still ends on is_connected.
C29_CloseEndsReader ==
    /\ [](CloseEventCompleted => ~is_connected)
    /\ (CloseEventCompleted ~> (wpc = "done" /\ ClosedEmitted))

\* stop() ran before start(): the flag is true again, closeEvent has completed, and
\* the loop has ended on is_connected and emitted closed
C29_Witness ==
    /\ shell = "closed"
    /\ gpc = "idle"
    /\ quitReq
    /\ is_running
    /\ ~is_connected
    /\ wpc = "done"
    /\ closedHandled = 0
    /\ events = <<ClosedEv>>

\* C30 as stated: no published message (the feed's timestamps are distinct) has two
\* records in the buffer.
C30_Original ==
    \A i, j \in 1..Len(data_buffer) :
       data_buffer[i].timestamp = data_buffer[j].timestamp => i = j

====
